---- MODULE Spec2Model ----
(***************************************************************************)
(* The expense handlers of src/api/expense.js and src/api/expenses.js: one *)
(* module-level array `expenses`, and one request handler per file that    *)
(* answers OPTIONS, GET, POST and any other method. Only expense.js can be *)
(* loaded: the first line of expenses.js stands outside its header comment *)
(* and is a syntax error, so that file defines no array and no handler.    *)
(*                                                                         *)
(* JavaScript values are records [t, n, s]: t is the type tag, n the       *)
(* numeric value in hundredths (45.99 is 4599: every number literal of the *)
(* source and every modelled input has at most two fraction digits), s the *)
(* characters of a string, one character per element, so that trim,        *)
(* parseFloat, the date pattern and the Date parser work on the characters.*)
(* A character that TLA+ cannot write in a string is written by its code   *)
(* point ("U+00A0").                                                       *)
(***************************************************************************)
EXTENDS Integers, Sequences, FiniteSets, TLC

VARIABLES module, expenses, now, req, res, before, created

vars == <<module, expenses, now, req, res, before, created>>

\* ------------------------------------------------------------------ bounds
\* Accepted POSTs per process lifetime in Spec.
MaxPosts == 2
\* Clock ticks per process lifetime.
MaxTicks == 2
\* The value of Date.now() when the process starts.
ClockStart == 1000

\* ------------------------------------------------------- JavaScript values
Undefined == [t |-> "undefined", n |-> 0, s |-> <<>>]
Null == [t |-> "null", n |-> 0, s |-> <<>>]
NaN == [t |-> "NaN", n |-> 0, s |-> <<>>]
Num(v) == [t |-> "number", n |-> v, s |-> <<>>]
Str(chars) == [t |-> "string", n |-> 0, s |-> chars]
\* A JSON array holding one string.
Arr(chars) == [t |-> "array", n |-> 0, s |-> chars]

\* typeof x
TypeOf(x) ==
    CASE x.t = "NaN" -> "number"
      [] x.t \in {"null", "array"} -> "object"
      [] OTHER -> x.t

\* ToBoolean(x), as used by the ! operator
Truthy(x) ==
    CASE x.t \in {"undefined", "null", "NaN"} -> FALSE
      [] x.t = "number" -> x.n # 0
      [] x.t = "string" -> Len(x.s) > 0
      [] OTHER -> TRUE

Digit == {"0", "1", "2", "3", "4", "5", "6", "7", "8", "9"}

DigitVal(c) ==
    CASE c = "0" -> 0 [] c = "1" -> 1 [] c = "2" -> 2 [] c = "3" -> 3
      [] c = "4" -> 4 [] c = "5" -> 5 [] c = "6" -> 6 [] c = "7" -> 7
      [] c = "8" -> 8 [] c = "9" -> 9

DigitChar(d) == <<"0", "1", "2", "3", "4", "5", "6", "7", "8", "9">>[d + 1]

\* The characters trim and parseFloat strip: WhiteSpace and LineTerminator
\* of the language (tab, VT, FF, space, NBSP, BOM, the space separators, LF,
\* CR, LS, PS).
WhiteSpace ==
    {"\t", "U+000B", "\f", " ", "U+00A0", "U+FEFF", "U+1680", "U+2000",
     "U+2001", "U+2002", "U+2003", "U+2004", "U+2005", "U+2006", "U+2007",
     "U+2008", "U+2009", "U+200A", "U+202F", "U+205F", "U+3000",
     "\n", "\r", "U+2028", "U+2029"}

RECURSIVE TrimStart(_)
TrimStart(s) ==
    IF Len(s) > 0 /\ s[1] \in WhiteSpace THEN TrimStart(Tail(s)) ELSE s

RECURSIVE TrimEnd(_)
TrimEnd(s) ==
    IF Len(s) > 0 /\ s[Len(s)] \in WhiteSpace
    THEN TrimEnd(SubSeq(s, 1, Len(s) - 1))
    ELSE s

\* String.prototype.trim
Trim(s) == TrimEnd(TrimStart(s))

RECURSIVE NatToChars(_)
NatToChars(k) ==
    IF k < 10 THEN <<DigitChar(k)>>
    ELSE NatToChars(k \div 10) \o <<DigitChar(k % 10)>>

\* Number::toString of a finite number held in hundredths.
NumberToChars(v) ==
    LET a == IF v < 0 THEN -v ELSE v
        ip == a \div 100
        fp == a % 100
        frac == IF fp = 0 THEN <<>>
                ELSE IF fp % 10 = 0 THEN <<".", DigitChar(fp \div 10)>>
                ELSE <<".", DigitChar(fp \div 10), DigitChar(fp % 10)>>
    IN (IF v < 0 THEN <<"-">> ELSE <<>>) \o NatToChars(ip) \o frac

\* ToString(x) for the values a parsed JSON body can hold.
ToChars(x) ==
    CASE x.t \in {"string", "array"} -> x.s
      [] x.t = "number" -> NumberToChars(x.n)
      [] x.t = "NaN" -> <<"N", "a", "N">>
      [] x.t = "null" -> <<"n", "u", "l", "l">>
      [] OTHER -> <<"u", "n", "d", "e", "f", "i", "n", "e", "d">>

\* The index after the run of digits of s that starts at i.
RECURSIVE DigitsEnd(_, _)
DigitsEnd(s, i) ==
    IF i <= Len(s) /\ s[i] \in Digit THEN DigitsEnd(s, i + 1) ELSE i

RECURSIVE DigitsVal(_)
DigitsVal(s) ==
    IF Len(s) = 0 THEN 0
    ELSE 10 * DigitsVal(SubSeq(s, 1, Len(s) - 1)) + DigitVal(s[Len(s)])

\* parseFloat(x): ToString, skip leading white space, then the longest prefix
\* that is a decimal literal (sign, digits, point, digits); NaN when there is
\* none. No modelled input holds an exponent part or the word Infinity, and
\* none has more than two fraction digits.
parseFloat(x) ==
    LET s == TrimStart(ToChars(x))
        neg == Len(s) > 0 /\ s[1] = "-"
        p == IF Len(s) > 0 /\ s[1] \in {"+", "-"} THEN 2 ELSE 1
        q == DigitsEnd(s, p)
        hasDot == q <= Len(s) /\ s[q] = "."
        r == IF hasDot THEN DigitsEnd(s, q + 1) ELSE q
        ipart == SubSeq(s, p, q - 1)
        fpart == IF hasDot THEN SubSeq(s, q + 1, r - 1) ELSE <<>>
        f2 == SubSeq(fpart \o <<"0", "0">>, 1, 2)
        mag == 100 * DigitsVal(ipart) + DigitsVal(f2)
    IN IF Len(ipart) = 0 /\ Len(fpart) = 0 THEN NaN
       ELSE Num(IF neg THEN -mag ELSE mag)

\* isNaN(x) for x a number
isNaN(x) == x.t = "NaN"

\* /^\d{4}-\d{2}-\d{2}$/.test(x)
DatePatternTest(x) ==
    LET s == ToChars(x)
    IN /\ Len(s) = 10
       /\ \A i \in {1, 2, 3, 4, 6, 7, 9, 10} : s[i] \in Digit
       /\ s[5] = "-"
       /\ s[8] = "-"

\* ------------------------------------------------------------- Date values
\* Days from 1970-01-01 to the first day of month m of year y, plus d - 1
\* (MakeDay: a day past the end of the month runs into the next month).
MakeDay(y, m, d) ==
    LET yy == IF m <= 2 THEN y - 1 ELSE y
        era == yy \div 400
        yoe == yy - era * 400
        mp == IF m > 2 THEN m - 3 ELSE m + 9
        doy == (153 * mp + 2) \div 5 + d - 1
        doe == yoe * 365 + yoe \div 4 - yoe \div 100 + doy
    IN era * 146097 + doe - 719468

IsMonth(n) == n \in 1..12

IsDay(n) == n \in 1..31

\* The year of a date that is not in the ISO form: 0..49 is 2000..2049,
\* 50..99 is 1950..1999.
LegacyYear(n) ==
    IF n \in 0..49 THEN n + 2000
    ELSE IF n \in 50..99 THEN n + 1900
    ELSE n

\* A time value, in days.
Days(n) == [t |-> "number", n |-> n, s |-> <<>>]

\* The time value of the string NNNN-NN-NN whose three numbers are a, b, c.
\* With b a month and c a day of 1..31 it is the ISO date a-b-c (a day past
\* the end of the month runs into the next month). Otherwise the engine goes
\* on with its legacy parser: when a is in 1..31 the numbers are read as
\* month, day, year, and otherwise as year, month, day, which then holds no
\* month or no day: an Invalid Date, whose time value is NaN.
ParseDate(a, b, c) ==
    IF IsMonth(b) /\ IsDay(c) THEN Days(MakeDay(a, b, c))
    ELSE IF IsDay(a) /\ IsMonth(a) /\ IsDay(b)
    THEN Days(MakeDay(LegacyYear(c), a, b))
    ELSE NaN

\* new Date(x).getTime() in days. The comparator uses only differences; an
\* ISO date-only string is midnight UTC and a legacy one midnight local time,
\* and the process runs in UTC, so every value is a whole number of days.
\* Only values that pass DatePatternTest are stored, so no other form is
\* parsed.
DateValue(x) ==
    IF ~DatePatternTest(x) THEN NaN
    ELSE ParseDate(DigitsVal(SubSeq(ToChars(x), 1, 4)),
                   DigitsVal(SubSeq(ToChars(x), 6, 7)),
                   DigitsVal(SubSeq(ToChars(x), 9, 10)))

\* x - y on numbers
Minus(x, y) ==
    IF x.t = "NaN" \/ y.t = "NaN" THEN NaN ELSE Days(x.n - y.n)

\* (a, b) => new Date(b.date) - new Date(a.date)
comparefn(a, b) == Minus(DateValue(b.date), DateValue(a.date))

\* The engine's call of the comparator: a NaN result counts as +0.
NaNAsZero(v) == IF v.t = "NaN" THEN 0 ELSE v.n

SortCompare(a, b) == NaNAsZero(comparefn(a, b))

\* ------------------------------------------------- Array.prototype.sort
\* The engine's sort for fewer than 64 elements: find the run that starts the
\* array (reversing a strictly descending one), then insert every later
\* element by binary search.
RunBreaks(descending, order) ==
    (descending /\ order >= 0) \/ (~descending /\ order < 0)

\* The index after the run that starts the array, counted from idx.
RECURSIVE RunEnd(_, _, _)
RunEnd(arr, idx, descending) ==
    IF idx > Len(arr) THEN idx
    ELSE IF RunBreaks(descending, SortCompare(arr[idx], arr[idx - 1]))
    THEN idx
    ELSE RunEnd(arr, idx + 1, descending)

RECURSIVE Reverse(_)
Reverse(s) ==
    IF Len(s) = 0 THEN <<>> ELSE Reverse(Tail(s)) \o <<Head(s)>>

\* <<array after the run is made ascending, run length>>
MakeRun(arr, descending, runLength) ==
    IF descending
    THEN <<Reverse(SubSeq(arr, 1, runLength))
             \o SubSeq(arr, runLength + 1, Len(arr)), runLength>>
    ELSE <<arr, runLength>>

CountRun(arr, descending) ==
    MakeRun(arr, descending, RunEnd(arr, 3, descending) - 1)

CountAndMakeRun(arr) == CountRun(arr, SortCompare(arr[2], arr[1]) < 0)

RECURSIVE BinarySearch(_, _, _, _)
BinarySearch(arr, pivot, left, right) ==
    IF left < right
    THEN IF SortCompare(pivot, arr[left + ((right - left) \div 2)]) < 0
         THEN BinarySearch(arr, pivot, left, left + ((right - left) \div 2))
         ELSE BinarySearch(arr, pivot, left + ((right - left) \div 2) + 1,
                           right)
    ELSE left

\* arr with the element at start moved to index left, the ones between
\* shifted right by one.
InsertAt(arr, start, left) ==
    SubSeq(arr, 1, left - 1) \o <<arr[start]>>
      \o SubSeq(arr, left, start - 1)
      \o SubSeq(arr, start + 1, Len(arr))

RECURSIVE BinaryInsertionSort(_, _)
BinaryInsertionSort(arr, start) ==
    IF start > Len(arr) THEN arr
    ELSE BinaryInsertionSort(
             InsertAt(arr, start, BinarySearch(arr, arr[start], 1, start)),
             start + 1)

SortRun(run) == BinaryInsertionSort(run[1], run[2] + 1)

\* expenses.sort((a, b) => new Date(b.date) - new Date(a.date))
SortByDateDesc(arr) ==
    IF Len(arr) < 2 THEN arr ELSE SortRun(CountAndMakeRun(arr))

\* ------------------------------------------------------------ the store
Expense(id, amount, description, category, date) ==
    [id |-> id, amount |-> amount, description |-> description,
     category |-> category, date |-> date]

\* let expenses = [ e1, e2, e3 ]
Seeds ==
    << Expense("e1", Num(4599),
               Str(<<"G", "r", "o", "c", "e", "r", "i", "e", "s",
                     " ", "a", "t", " ", "T", "r", "a", "d", "e",
                     "r", " ", "J", "o", "e", "'", "s">>),
               Str(<<"F", "o", "o", "d">>),
               Str(<<"2", "0", "2", "5", "-", "1", "1", "-", "2", "8">>)),
       Expense("e2", Num(12000),
               Str(<<"E", "l", "e", "c", "t", "r", "i", "c", "i",
                     "t", "y", " ", "B", "i", "l", "l">>),
               Str(<<"U", "t", "i", "l", "i", "t", "i", "e", "s">>),
               Str(<<"2", "0", "2", "5", "-", "1", "1", "-", "3", "0">>)),
       Expense("e3", Num(2550),
               Str(<<"C", "o", "f", "f", "e", "e", " ", "w", "i",
                     "t", "h", " ", "c", "l", "i", "e", "n", "t">>),
               Str(<<"M", "i", "s", "c">>),
               Str(<<"2", "0", "2", "5", "-", "1", "2", "-", "0", "1">>)) >>

\* ------------------------------------------------------ requests, responses
\* req.body as the platform hands it over: a parsed JSON object whose four
\* keys hold a value or are missing (Undefined), or no body at all.
Obj(amount, description, category, date) ==
    [t |-> "object", amount |-> amount, description |-> description,
     category |-> category, date |-> date]

NoBody(tag) ==
    [t |-> tag, amount |-> Undefined, description |-> Undefined,
     category |-> Undefined, date |-> Undefined]

\* {}
EmptyObject == Obj(Undefined, Undefined, Undefined, Undefined)

Request(method, body) == [method |-> method, body |-> body]

\* What writeHead and end send: the status and the JSON body (shape says
\* which keys the body has; data is the list of GET or the one record of POST).
Response(status, shape, success, error, message, details, data) ==
    [status |-> status, shape |-> shape, success |-> success, error |-> error,
     message |-> message, details |-> details, data |-> data]

NoResponse == Response(0, "none", FALSE, "", "", <<>>, <<>>)

AmountMessage == "Missing or invalid 'amount'. Must be a number."
DescriptionMessage ==
    "Missing or invalid 'description'. Must be a non-empty string."
CategoryMessage == "Missing or invalid 'category'. Must be a non-empty string."
DateMessage == "Missing or invalid 'date'. Must be in YYYY-MM-DD format."

\* ------------------------------------------------------- validateExpense
AmountCheckFails(amount) == ~Truthy(amount) \/ isNaN(parseFloat(amount))

TextCheckFails(text) ==
    \/ ~Truthy(text)
    \/ TypeOf(text) # "string"
    \/ Len(Trim(text.s)) = 0

\* DateCheckFails with a fault: the date must also be one the Date parser
\* accepts.
DateCheckFailsCalendar(date) ==
    ~Truthy(date) \/ ~DatePatternTest(date) \/ isNaN(DateValue(date))

DateCheckFails(date) == ~Truthy(date) \/ ~DatePatternTest(date)

\* validateExpense(data): destructuring undefined or null throws a TypeError;
\* otherwise the four checks run in turn and every failure is pushed.
validateExpense(data) ==
    IF data.t \in {"undefined", "null"}
    THEN [threw |-> TRUE, errors |-> <<>>]
    ELSE [threw |-> FALSE,
          errors |->
            (IF AmountCheckFails(data.amount)
             THEN <<AmountMessage>> ELSE <<>>)
            \o (IF TextCheckFails(data.description)
                THEN <<DescriptionMessage>> ELSE <<>>)
            \o (IF TextCheckFails(data.category)
                THEN <<CategoryMessage>> ELSE <<>>)
            \o (IF DateCheckFails(data.date)
                THEN <<DateMessage>> ELSE <<>>)]

\* -------------------------------------------------------------- handlers
\* Every handler operator gives [expenses |-> the array afterwards,
\* res |-> the response].
Outcome(store, response) == [expenses |-> store, res |-> response]

HandleOptions(store) ==
    Outcome(store, Response(204, "empty", FALSE, "", "", <<>>, <<>>))

\* The 200 response: data is the array sort returned, the store itself.
ListResponse(sorted) ==
    Outcome(sorted, Response(200, "list", TRUE, "", "", <<>>, sorted))

HasValidDate(e) == ~isNaN(DateValue(e.date))

\* HandleGet with a fault: records whose date is an Invalid Date are
\* filtered out before the sort.
HandleGetValidDatesOnly(store) ==
    ListResponse(SortByDateDesc(SelectSeq(store, HasValidDate)))

\* The GET branch: sort sorts the array in place and returns it.
HandleGet(store) == ListResponse(SortByDateDesc(store))

InternalError ==
    Response(500, "error", FALSE,
             "Internal Server Error during expense creation", "", <<>>, <<>>)

\* const expenseId = `e${Date.now()}`; const expense = {...}
BuildExpense(newExpense, clock) ==
    Expense("e" \o ToString(clock),
            parseFloat(newExpense.amount),
            Str(Trim(newExpense.description.s)),
            Str(Trim(newExpense.category.s)),
            newExpense.date)

\* Created with a fault: unshift in place of push.
CreatedUnshift(store, expense) ==
    Outcome(<<expense>> \o store,
            Response(201, "created", TRUE, "", "Expense added successfully",
                     <<>>, <<expense>>))

\* expenses.push(expense) and the 201 response
Created(store, expense) ==
    Outcome(Append(store, expense),
            Response(201, "created", TRUE, "", "Expense added successfully",
                     <<>>, <<expense>>))

\* The POST branch after validateExpense returned.
FinishPost(store, newExpense, validation, clock) ==
    IF validation.threw THEN Outcome(store, InternalError)
    ELSE IF Len(validation.errors) > 0
    THEN Outcome(store, Response(400, "validation", FALSE, "Validation Failed",
                                 "", validation.errors, <<>>))
    ELSE Created(store, BuildExpense(newExpense, clock))

\* src/api/expense.js: validateExpense(newExpense || {})
HandlePostExpense(store, body, clock) ==
    FinishPost(store, body,
               validateExpense(IF body.t = "object" THEN body ELSE EmptyObject),
               clock)

\* Whether file mod can be loaded. Line 1 of src/api/expenses.js,
\* "* Vercel Serverless Function ...", is not inside a comment (the opening
\* of the header comment is missing): loading it throws a SyntaxError before
\* any statement runs.
Loads(mod) == mod = "expense"

\* The array of file mod once the process has started: none when the file
\* did not load.
LoadedStore(mod) == IF Loads(mod) THEN Seeds ELSE <<>>

\* What a file that did not load gives for a request: no array, no response.
NoHandler == Outcome(<<>>, NoResponse)

HandleOther(store, method) ==
    Outcome(store, Response(405, "error", FALSE,
                            "Method " \o method \o " Not Allowed", "",
                            <<>>, <<>>))

\* module.exports = async (req, res) => {...} of file mod. The handler has no
\* await: it runs from its first statement to its last without interleaving.
Handler(mod, store, request, clock) ==
    CASE ~Loads(mod) -> NoHandler
      [] request.method = "OPTIONS" -> HandleOptions(store)
      [] request.method = "GET" -> HandleGet(store)
      [] request.method = "POST" ->
           HandlePostExpense(store, request.body, clock)
      [] OTHER -> HandleOther(store, request.method)

\* ---------------------------------------------------------------- inputs
Lunch == Str(<<"L", "u", "n", "c", "h">>)
LunchPadded == Str(<<" ", "L", "u", "n", "c", "h", " ">>)
Food == Str(<<"F", "o", "o", "d">>)
Date_2025_12_05 == Str(<<"2", "0", "2", "5", "-", "1", "2", "-", "0", "5">>)
Date_2025_11_29 == Str(<<"2", "0", "2", "5", "-", "1", "1", "-", "2", "9">>)
\* Matches the pattern; no such month or day.
Date_2025_13_40 == Str(<<"2", "0", "2", "5", "-", "1", "3", "-", "4", "0">>)
\* Matches the pattern; February has no 30th.
Date_2025_02_30 == Str(<<"2", "0", "2", "5", "-", "0", "2", "-", "3", "0">>)
\* Matches the pattern; January has no 32nd, and the legacy parser reads
\* month 1, day 1, year 2032.
Date_0001_01_32 == Str(<<"0", "0", "0", "1", "-", "0", "1", "-", "3", "2">>)
DateSlashes == Str(<<"1", "2", "/", "0", "5", "/", "2", "0", "2", "5">>)
\* The JSON value ["2025-12-05"]
DateInArray == Arr(<<"2", "0", "2", "5", "-", "1", "2", "-", "0", "5">>)

\* The values tried for each key of a POST body.
Amounts ==
    {Undefined, Num(0), Num(5000), Str(<<"0">>), Str(<<"a", "b", "c">>),
     Str(<<"1", "2", ".", "5">>), Str(<<"\r", "5">>)}
Descriptions ==
    {Undefined, Str(<<>>), Str(<<" ", "\r", "U+00A0">>), LunchPadded,
     Str(<<"\r", "L", "u", "n", "c", "h", "\f">>), Num(500)}
Categories == {Undefined, Str(<<" ">>), Food}
Dates ==
    {Undefined, Date_2025_12_05, Date_2025_13_40, Date_2025_02_30,
     Date_0001_01_32, DateSlashes, DateInArray}

\* Every combination of the values above, and a request without a body.
AllBodies ==
    {Obj(a, d, c, dt) : a \in Amounts, d \in Descriptions,
                        c \in Categories, dt \in Dates}
      \cup {NoBody("undefined"), NoBody("null")}

\* The bodies of the request sequences of Spec: five that validate (a date
\* after the seeds, one between them, one with no such month, two with no
\* such day) and three that do not.
Bodies ==
    {Obj(Num(5000), Lunch, Food, Date_2025_12_05),
     Obj(Str(<<"1", "2", ".", "5">>), LunchPadded, Food, Date_2025_11_29),
     Obj(Num(5000), Lunch, Food, Date_2025_13_40),
     Obj(Num(5000), Lunch, Food, Date_2025_02_30),
     Obj(Num(5000), Lunch, Food, Date_0001_01_32),
     Obj(Str(<<"a", "b", "c">>), Str(<<>>), Food, Date_2025_13_40),
     EmptyObject,
     NoBody("undefined")}

OtherMethods == {"DELETE", "PUT"}

\* ----------------------------------------------------------- state machine
\* module: the file the process was started with; expenses: its array (none
\* when the file did not load); now: Date.now();
\* req, res: the last request handled and its response; before: the array
\* when that request arrived; created: the records of the 201 responses so
\* far, oldest first.
Init ==
    /\ module \in {"expense", "expenses"}
    /\ expenses = LoadedStore(module)
    /\ now = ClockStart
    /\ req = Request("NONE", NoBody("undefined"))
    /\ res = NoResponse
    /\ before = LoadedStore(module)
    /\ created = <<>>

\* The effect of one request, handled from its first statement to its
\* response. A file that did not load handles none.
Respond(out) ==
    /\ Loads(module)
    /\ expenses' = out.expenses
    /\ res' = out.res
    /\ before' = expenses
    /\ created' = IF out.res.status = 201
                  THEN Append(created, out.res.data[1])
                  ELSE created
    /\ UNCHANGED <<module, now>>

Handle(request) ==
    /\ req' = request
    /\ Respond(Handler(module, expenses, request, now))

Options ==
    /\ req' = Request("OPTIONS", NoBody("undefined"))
    /\ Respond(Handler(module, expenses, req', now))

Get ==
    /\ req' = Request("GET", NoBody("undefined"))
    /\ Respond(Handler(module, expenses, req', now))

Post ==
    /\ Len(created) < MaxPosts
    /\ \E body \in Bodies : Handle(Request("POST", body))

Other ==
    /\ \E m \in OtherMethods : req' = Request(m, NoBody("undefined"))
    /\ Respond(Handler(module, expenses, req', now))

\* A millisecond passes between two requests.
Tick ==
    /\ now < ClockStart + MaxTicks
    /\ now' = now + 1
    /\ UNCHANGED <<module, expenses, req, res, before, created>>

Next == Options \/ Get \/ Post \/ Other \/ Tick

Spec == Init /\ [][Next]_vars

\* One POST with any body of AllBodies, to the process as started or after
\* its first GET.
PostAny ==
    /\ req.method \in {"NONE", "GET"}
    /\ \E body \in AllBodies : Handle(Request("POST", body))

FirstGet ==
    /\ req.method = "NONE"
    /\ Get

NextPayloads == PostAny \/ FirstGet

SpecPayloads == Init /\ [][NextPayloads]_vars

\* ================================================================ claims
IsPost == req.method = "POST"
IsGet == req.method = "GET"

\* C1: a GET, an OPTIONS or an unsupported-method request leaves the stored
\* collection as it was: the same records in the same order.
C1_ReadsLeaveStoreUnchanged ==
    req.method \notin {"NONE", "POST"} => expenses = before

\* C2: a POST is answered 201 with exactly the returned record appended at
\* the end of the store, or 400 or 500 with the store unchanged.
C2_PostAllOrNothing ==
    IsPost =>
        \/ /\ res.status = 201
           /\ Len(res.data) = 1
           /\ expenses = Append(before, res.data[1])
        \/ /\ res.status \in {400, 500}
           /\ expenses = before

\* A second record was created after a GET had reordered the store.
C2_Witness ==
    /\ IsPost
    /\ res.status = 201
    /\ Len(expenses) = Len(Seeds) + 2
    /\ SubSeq(before, 1, 3) # Seeds

BagOfSeq(s) ==
    [x \in {s[i] : i \in DOMAIN s} |-> Cardinality({i \in DOMAIN s : s[i] = x})]

\* C3: the data of a GET holds the three seeds and every record of an earlier
\* 201 response, each as often as it was created, and nothing else.
C3_GetReturnsSeedsAndCreated ==
    IsGet =>
        /\ BagOfSeq(res.data) = BagOfSeq(Seeds \o created)
        /\ Len(res.data) = Len(Seeds) + Len(created)

\* A GET after two POSTs of the same body in the same millisecond.
C3_Witness ==
    /\ IsGet
    /\ Len(created) = 2
    /\ created[1] = created[2]

\* The calendar order of two dates written YYYY-MM-DD.
DateKey(x) ==
    10000 * DigitsVal(SubSeq(ToChars(x), 1, 4))
      + 100 * DigitsVal(SubSeq(ToChars(x), 6, 7))
      + DigitsVal(SubSeq(ToChars(x), 9, 10))

DateBefore(a, b) == DateKey(a) < DateKey(b)

\* C4: the list of a GET is sorted by date non-increasing (no record's date
\* is before the date of the record after it), and the first GET of a process
\* lists e3, e2, e1.
C4_GetSortedByDate ==
    IsGet =>
        /\ \A i \in 1..(Len(res.data) - 1) :
             ~DateBefore(res.data[i].date, res.data[i + 1].date)
        /\ before = Seeds =>
             [i \in 1..3 |-> res.data[i].id] = <<"e3", "e2", "e1">>

\* What section 4.1 calls a failing field.
SpecAmountInvalid(x) ==
    \/ ~Truthy(x)
    \/ isNaN(parseFloat(x))
    \/ parseFloat(x).n = 0

SpecTextInvalid(x) ==
    \/ x = Undefined
    \/ TypeOf(x) # "string"
    \/ Len(Trim(x.s)) = 0

SpecDateInvalid(x) ==
    \/ x = Undefined
    \/ TypeOf(x) # "string"
    \/ ~DatePatternTest(x)

SpecMessages(body) ==
    (IF SpecAmountInvalid(body.amount) THEN {AmountMessage} ELSE {})
      \cup (IF SpecTextInvalid(body.description)
            THEN {DescriptionMessage} ELSE {})
      \cup (IF SpecTextInvalid(body.category) THEN {CategoryMessage} ELSE {})
      \cup (IF SpecDateInvalid(body.date) THEN {DateMessage} ELSE {})

\* C5: a POST is answered 400 exactly when a field is missing or invalid,
\* with exactly one message for each such field and none for the others, and
\* 201 when no field fails.
C5_OneMessagePerFailingField ==
    (IsPost /\ req.body.t = "object") =>
        /\ res.status = 400 <=> SpecMessages(req.body) # {}
        /\ res.status = 201 <=> SpecMessages(req.body) = {}
        /\ {res.details[i] : i \in DOMAIN res.details} = SpecMessages(req.body)
        /\ Len(res.details) = Cardinality(SpecMessages(req.body))

\* {amount:"abc", description:"", category:"Food", date:"2025-13-40"}
ScenarioBody == Obj(Str(<<"a", "b", "c">>), Str(<<>>), Food, Date_2025_13_40)

\* C6 as stated: the scenario body is answered 400 with three details and no
\* record is created.
C6_ScenarioThreeDetails ==
    (IsPost /\ req.body = ScenarioBody) =>
        /\ res.status = 400
        /\ Len(res.details) = 3
        /\ expenses = before

\* C6 as amended: the scenario body is answered 400 with two details, the
\* amount message and the description message, and no record is created.
C6_ScenarioTwoDetails ==
    (IsPost /\ req.body = ScenarioBody) =>
        /\ res.status = 400
        /\ res.details = <<AmountMessage, DescriptionMessage>>
        /\ expenses = before

C6_Witness == IsPost /\ req.body = ScenarioBody /\ res.status = 400

\* C7: no two stored records have the same id.
C7_IdsUnique ==
    \A i, j \in DOMAIN expenses :
        i # j => expenses[i].id # expenses[j].id

\* C8: a POST whose amount is missing, zero or not parseable is answered 400
\* with the amount message, and no created record has amount zero.
C8_ZeroAmountRejected ==
    /\ (IsPost /\ req.body.t = "object" /\ SpecAmountInvalid(req.body.amount))
         => /\ res.status = 400
            /\ \E i \in DOMAIN res.details : res.details[i] = AmountMessage
    /\ \A i \in DOMAIN created : created[i].amount # Num(0)

ValidExpense(e) ==
    /\ Len(e.id) > 0
    /\ e.amount.t = "number"
    /\ e.description.t = "string"
    /\ Len(e.description.s) > 0
    /\ Trim(e.description.s) = e.description.s
    /\ e.category.t = "string"
    /\ Len(e.category.s) > 0
    /\ Trim(e.category.s) = e.category.s
    /\ e.date.t = "string"
    /\ DatePatternTest(e.date)

\* C9: every stored expense has its five fields populated and valid, and a
\* created record holds the parse of the submitted amount and the submitted
\* date verbatim.
C9_StoredExpensesValid ==
    /\ \A i \in DOMAIN expenses : ValidExpense(expenses[i])
    /\ (IsPost /\ res.status = 201) =>
         /\ res.data[1].amount = parseFloat(req.body.amount)
         /\ res.data[1].date = req.body.date

\* C10: for the request just handled, the handler of either file, started
\* from the same store and clock, gives the same response and the same store.
C10_HandlersAgree ==
    req.method # "NONE" =>
        \A mod \in {"expense", "expenses"} :
            Handler(mod, before, req, now) = Outcome(expenses, res)
====
